---------------------------- MODULE Spec2Model ----------------------------
(***************************************************************************)
(* A model of the UI-flow pipeline of uiflowchartcreator: the tool handler *)
(* (index.ts), the two repository listers (utils/repoHandlers.ts) and the  *)
(* graph builder and diagram renderer (utils/flowParser.ts).               *)
(*                                                                         *)
(* Strings are TLA+ strings; a path is the string Node's path module (the  *)
(* POSIX flavour) would produce.  One invocation of the handler is a       *)
(* process: its position is pc, its asynchronous suspension points (a      *)
(* directory listing, a remote file read) are the boundaries of actions.   *)
(***************************************************************************)
EXTENDS Integers, Sequences, FiniteSets, TLC

(***************************************************************************)
(* String primitives (String.prototype) and the path module.               *)
(***************************************************************************)

\* s[k] as a one-character string.
Ch(s, k) ==
    SubSeq(s, k, k)

\* String.prototype.endsWith
EndsWith(s, suffix) ==
    /\ Len(suffix) <= Len(s)
    /\ SubSeq(s, Len(s) - Len(suffix) + 1, Len(s)) = suffix

\* String.prototype.startsWith
StartsWith(s, prefix) ==
    /\ Len(prefix) <= Len(s)
    /\ SubSeq(s, 1, Len(prefix)) = prefix

\* String.prototype.includes
Includes(s, sub) ==
    \E k \in 1..(Len(s) - Len(sub) + 1) : SubSeq(s, k, k + Len(sub) - 1) = sub

\* The index of the first occurrence of the character c in s, 0 when absent.
IndexOf(s, c) ==
    IF \E k \in 1..Len(s) : Ch(s, k) = c
    THEN CHOOSE k \in 1..Len(s) :
            /\ Ch(s, k) = c
            /\ \A j \in 1..(k - 1) : Ch(s, j) # c
    ELSE 0

\* String.prototype.split with a one-character separator.
RECURSIVE Split(_, _)
Split(s, sep) ==
    LET k == IndexOf(s, sep)
    IN  IF k = 0
        THEN <<s>>
        ELSE <<SubSeq(s, 1, k - 1)>> \o Split(SubSeq(s, k + 1, Len(s)), sep)

\* Array.prototype.join
RECURSIVE JoinWith(_, _)
JoinWith(parts, sep) ==
    IF Len(parts) = 0 THEN ""
    ELSE IF Len(parts) = 1 THEN parts[1]
    ELSE parts[1] \o sep \o JoinWith(Tail(parts), sep)

UpperCase ==
    <<"A", "B", "C", "D", "E", "F", "G", "H", "I", "J", "K", "L", "M",
      "N", "O", "P", "Q", "R", "S", "T", "U", "V", "W", "X", "Y", "Z">>

LowerCase ==
    <<"a", "b", "c", "d", "e", "f", "g", "h", "i", "j", "k", "l", "m",
      "n", "o", "p", "q", "r", "s", "t", "u", "v", "w", "x", "y", "z">>

Digits ==
    {"0", "1", "2", "3", "4", "5", "6", "7", "8", "9"}

IsUpper(c) ==
    \E k \in 1..Len(UpperCase) : UpperCase[k] = c

IsAlnum(c) ==
    \/ IsUpper(c)
    \/ \E k \in 1..Len(LowerCase) : LowerCase[k] = c
    \/ c \in Digits

\* The regular expression class \w
IsWordChar(c) ==
    IsAlnum(c) \/ c = "_"

\* The regular expression class \s (the members that occur in the inputs)
IsSpace(c) ==
    c = " "

\* String.prototype.toLowerCase
RECURSIVE ToLowerCase(_)
ToLowerCase(s) ==
    IF Len(s) = 0 THEN ""
    ELSE LET c == Ch(s, 1)
             lc == IF IsUpper(c)
                   THEN LowerCase[CHOOSE k \in 1..Len(UpperCase) : UpperCase[k] = c]
                   ELSE c
         IN  lc \o ToLowerCase(SubSeq(s, 2, Len(s)))

\* String.prototype.trim
RECURSIVE Trim(_)
Trim(s) ==
    IF Len(s) = 0 THEN s
    ELSE IF IsSpace(Ch(s, 1)) THEN Trim(SubSeq(s, 2, Len(s)))
    ELSE IF IsSpace(Ch(s, Len(s))) THEN Trim(SubSeq(s, 1, Len(s) - 1))
    ELSE s

\* path.normalize on the segments of a relative path: "" and "." vanish, ".."
\* removes the segment before it, or stays when there is none to remove.
RECURSIVE NormalizeSegments(_, _)
NormalizeSegments(segs, acc) ==
    IF Len(segs) = 0 THEN acc
    ELSE LET h == Head(segs)
         IN  IF h = "" \/ h = "."
             THEN NormalizeSegments(Tail(segs), acc)
             ELSE IF h = ".." /\ Len(acc) > 0 /\ acc[Len(acc)] # ".."
             THEN NormalizeSegments(Tail(segs), SubSeq(acc, 1, Len(acc) - 1))
             ELSE NormalizeSegments(Tail(segs), Append(acc, h))

\* path.normalize (POSIX)
PathNormalize(p) ==
    LET abs  == StartsWith(p, "/")
        segs == NormalizeSegments(Split(p, "/"),  <<>>)
        kept == IF abs
                THEN SelectSeq(segs, LAMBDA x : x # "..")
                ELSE segs
        body == JoinWith(kept, "/")
    IN  IF abs THEN "/" \o body
        ELSE IF body = "" THEN "."
        ELSE body

\* path.join (POSIX): the non-empty arguments joined by "/" and normalized.
PathJoin(parts) ==
    LET given == SelectSeq(parts, LAMBDA x : x # "")
    IN  IF Len(given) = 0 THEN "."
        ELSE PathNormalize(JoinWith(given, "/"))

\* path.dirname (POSIX) of a path without trailing slashes.
PathDirname(p) ==
    LET segs == Split(p, "/")
    IN  IF Len(segs) = 1 THEN "."
        ELSE LET dir == JoinWith(SubSeq(segs, 1, Len(segs) - 1), "/")
             IN  IF dir = "" THEN "/" ELSE dir

(***************************************************************************)
(* The source trees the data sources serve.  A directory is the sequence   *)
(* of entries the operating system (fs.readdir) or the GitHub contents API *)
(* returns for it; a file's text is its sequence of statements, each given *)
(* by its keyword, the clause between "import" and "from", and the quoted  *)
(* module literal.                                                         *)
(***************************************************************************)

ImportLine(clause, source) ==
    [kw |-> "import", clause |-> clause, source |-> source]

TextLine ==
    [kw |-> "export", clause |-> "", source |-> ""]

File(name, lines) ==
    [name |-> name, type |-> "file", text |-> lines]

Dir(name) ==
    [name |-> name, type |-> "dir", text |-> <<>>]

Symlink(name) ==
    [name |-> name, type |-> "symlink", text |-> <<>>]

\* pages/Home imports components/Button, Button imports nothing.
ExampleTree ==
    ("" :> << Dir("node_modules"), File(".env", <<TextLine>>),
              File("README.md", <<TextLine>>), Dir("pages"), Dir("components") >>)
    @@ ("node_modules" :> << File("index.js", <<TextLine>>) >>)
    @@ ("pages" :> << File("Home.tsx",
                           << ImportLine("Button", "../components/Button") >>) >>)
    @@ ("components" :> << File("Button.tsx", <<TextLine>>) >>)

\* one directory: a chain A <- B <- C, and a file that imports a library only.
FlatTree ==
    ("" :> << File("A.ts", <<TextLine>>),
              File("B.ts", << ImportLine("A", "./A") >>),
              File("C.ts", << ImportLine("{ B }", "./B"), TextLine >>),
              File("App.tsx", << ImportLine("React", "react"),
                                 ImportLine("", "./App.css"),
                                 ImportLine("* as path", "path") >>),
              File("notes.txt", << ImportLine("A", "./A") >>),
              Symlink("link.ts") >>)

\* two components named Foo in different directories.
TwinTree ==
    ("" :> << Dir("a"), Dir("b") >>)
    @@ ("a" :> << File("Foo.ts", <<TextLine>>) >>)
    @@ ("b" :> << File("Bar.ts", <<TextLine>>),
                  File("Foo.ts", << ImportLine("Bar", "./Bar") >>) >>)

\* Foo.ts and Foo.test.ts derive the same component path.
DupTree ==
    ("" :> << File("X.ts", <<TextLine>>),
              File("Y.ts", <<TextLine>>),
              File("Foo.ts", << ImportLine("X", "./X") >>),
              File("Foo.test.ts", << ImportLine("Y", "./Y") >>) >>)

\* R <- A <-> B: a cycle of imports below a root, and a file importing itself.
CyclicTree ==
    ("" :> << File("R.ts", <<TextLine>>),
              File("A.ts", << ImportLine("R", "./R"), ImportLine("B", "./B") >>),
              File("B.ts", << ImportLine("A", "./A") >>),
              File("S.ts", << ImportLine("S", "./S") >>) >>)

\* a component whose name holds two hyphens, alone in its repository.
DashTree ==
    ("" :> << File("nav--bar.ts", <<TextLine>>), File("package-lock.json", <<TextLine>>) >>)

\* P and Q import each other and nothing imports or is imported by Z.
LoopTree ==
    ("" :> << File("P.ts", << ImportLine("Q", "./Q") >>),
              File("Q.ts", << ImportLine("P", "./P") >>),
              File("Z.ts", <<TextLine>>) >>)

EmptyTree ==
    ("" :> << File("README.md", <<TextLine>>) >>)

Trees ==
    [ example |-> ExampleTree, flat |-> FlatTree, twin |-> TwinTree,
      dup |-> DupTree, cyclic |-> CyclicTree, loop |-> LoopTree,
      dash |-> DashTree, empty |-> EmptyTree ]

TreeIds ==
    DOMAIN Trees

\* Every directory and file of a tree, by its path relative to the root.
PathsOf(t) ==
    DOMAIN Trees[t]
    \cup UNION { { PathJoin(<<d, Trees[t][d][k].name>>) : k \in DOMAIN Trees[t][d] } :
                 d \in DOMAIN Trees[t] }

\* Where the tree is checked out locally, and which GitHub repository holds it.
LocalRoot ==
    "/w"

RepoOwner ==
    "acme"

RepoName ==
    "ui"

RawBase ==
    "https://raw/"

(***************************************************************************)
(* The state: the environment (which tree the data sources serve, which of *)
(* its paths cannot be read, whether GITHUB_TOKEN is set, the files        *)
(* written), and for each invocation of the tool its arguments, position   *)
(* and locals.                                                             *)
(***************************************************************************)
VARIABLES
    repoId,          \* the tree held by the local disk and the GitHub repository
    faulty,          \* the paths of the tree whose listing or read fails
    githubToken,     \* process.env.GITHUB_TOKEN is set
    written,         \* fs.writeFile calls so far: <<[by, path, content]>>
    invocations,     \* the tool invocations of this run
    args,            \* request.params of each invocation
    pc,              \* where each invocation is
    pending,         \* the listing an invocation is awaiting
    stack,           \* processContents activations: [items, idx, currentPath]
    components,      \* parseUIFlow's map `components`, in insertion order
    rootComponents,  \* parseUIFlow's rootComponents, as keys of components
    uiFlow,          \* the forest parsed back from parseUIFlow's JSON text
    chart,           \* generateMermaidFlowchart's text, a sequence of lines
    requests,        \* the data-source requests an invocation has issued
    warnings,        \* console.warn output of an invocation
    response,        \* what the caller got: none, a text or an error
    probe,           \* a function of flowParser.ts called on its own, with its input
    results          \* what the calls of that function gave, in order

vars ==
    << repoId, faulty, githubToken, written, invocations, args, pc, pending,
       stack, components, rootComponents, uiFlow, chart, requests, warnings,
       response, probe, results >>

envVars ==
    << repoId, faulty, githubToken, invocations, args >>

libVars ==
    << probe, results >>

(***************************************************************************)
(* utils/repoHandlers.ts                                                   *)
(***************************************************************************)

\* new McpError(code, message); cause is the text the message interpolates.
McpError(code, message, cause) ==
    [mcp |-> TRUE, code |-> code, message |-> message, cause |-> cause]

\* An error that is no McpError: a TypeError, a RangeError, a system error.
JsError(message) ==
    [mcp |-> FALSE, code |-> "", message |-> message, cause |-> ""]

Ok(value) ==
    [ok |-> TRUE, value |-> value]

Throw(error) ==
    [ok |-> FALSE, error |-> error]

excludeList ==
    {"node_modules", ".git", "dist", "build", ".vscode", ".idea", "test", "__tests__"}

excludeFiles ==
    {".env", ".gitignore", "package-lock.json", "yarn.lock"}

\* The path of the tree an absolute local path denotes.
RelativeToRoot(p) ==
    IF p = LocalRoot THEN ""
    ELSE SubSeq(p, Len(LocalRoot) + 2, Len(p))

\* fs.readdir(p, {withFileTypes: true})
ReadDir(p) ==
    IF /\ StartsWith(p, LocalRoot)
       /\ RelativeToRoot(p) \in DOMAIN Trees[repoId]
       /\ RelativeToRoot(p) \notin faulty
    THEN Ok(Trees[repoId][RelativeToRoot(p)])
    ELSE Throw("ENOENT/EACCES: scandir")

\* fs.readFile(p, "utf-8") of a directory entry
ReadFile(p, entry) ==
    IF RelativeToRoot(p) \notin faulty
    THEN Ok(entry.text)
    ELSE Throw("EACCES: open")

\* The loop of fetchLocalRepoContents over the directory's entries; the first
\* file that cannot be read ends it with the error.
RECURSIVE LocalEntries(_, _, _, _)
LocalEntries(items, repoPath, k, contents) ==
    IF k > Len(items) THEN Ok(contents)
    ELSE
        LET item     == items[k]
            itemPath == PathJoin(<<repoPath, item.name>>)
        IN  IF \/ item.name \in excludeList
               \/ (item.type = "file" /\ item.name \in excludeFiles)
            THEN LocalEntries(items, repoPath, k + 1, contents)
            ELSE IF item.type = "dir"
            THEN LocalEntries(items, repoPath, k + 1,
                     Append(contents,
                            [name |-> item.name, path |-> itemPath, type |-> "dir"]))
            ELSE IF item.type = "file"
            THEN LET content == ReadFile(itemPath, item)
                 IN  IF content.ok
                     THEN LocalEntries(items, repoPath, k + 1,
                              Append(contents,
                                     [name |-> item.name, path |-> itemPath,
                                      type |-> "file", content |-> content.value]))
                     ELSE content
            ELSE LocalEntries(items, repoPath, k + 1, contents)

fetchLocalRepoContents(repoPath) ==
    LET items == ReadDir(repoPath)
        read  == IF items.ok
                 THEN LocalEntries(items.value, repoPath, 1, <<>>)
                 ELSE items
    IN  IF read.ok THEN read
        ELSE Throw(McpError("InvalidRequest", "Failed to read local repository",
                            read.error))

\* GET https://api.github.com/repos/{owner}/{repo}/contents/{repoPath}: the
\* entries of the directory as the contents API describes them (name, path, type
\* and, for a file, download_url; the API gives an item no owner and no repo).
GitHubContents(owner, repo, repoPath) ==
    IF /\ owner = RepoOwner
       /\ repo = RepoName
       /\ repoPath \in DOMAIN Trees[repoId]
       /\ repoPath \notin faulty
    THEN Ok([ k \in DOMAIN Trees[repoId][repoPath] |->
                LET e == Trees[repoId][repoPath][k]
                    p == PathJoin(<<repoPath, e.name>>)
                IN  IF e.type = "file"
                    THEN [name |-> e.name, path |-> p, type |-> e.type,
                          download_url |-> RawBase \o p]
                    ELSE [name |-> e.name, path |-> p, type |-> e.type] ])
    ELSE Throw("Not Found")

\* The filter of fetchGitHubRepoContents.
GitHubKeeps(item) ==
    /\ ~(item.type = "dir" /\ item.name \in excludeList)
    /\ ~(item.type = "file" /\ item.name \in excludeFiles)

fetchGitHubRepoContents(owner, repo, repoPath) ==
    IF ~githubToken
    THEN Throw(McpError("InvalidRequest", "GitHub token is required", "no token"))
    ELSE
        LET got == GitHubContents(owner, repo, repoPath)
        IN  IF got.ok
            THEN Ok(SelectSeq(got.value, GitHubKeeps))
            ELSE Throw(McpError("InvalidRequest", "GitHub API error", got.error))

\* axios.get(download_url) of a file item; response.data is the file's text.
AxiosGet(url) ==
    IF /\ StartsWith(url, RawBase)
       /\ SubSeq(url, Len(RawBase) + 1, Len(url)) \notin faulty
    THEN Ok(LET p   == SubSeq(url, Len(RawBase) + 1, Len(url))
                dir == IF PathDirname(p) = "." THEN "" ELSE PathDirname(p)
                es  == Trees[repoId][dir]
                k   == CHOOSE j \in DOMAIN es : PathJoin(<<dir, es[j].name>>) = p
            IN  es[k].text)
    ELSE Throw("Request failed")

(***************************************************************************)
(* utils/flowParser.ts: parseUIFlow                                        *)
(***************************************************************************)

DefaultExtensions ==
    <<"js", "jsx", "ts", "tsx">>

\* Qualifies with the extension looked for anywhere in the name.
QualifiesAnywhere(item, fileExtensions) ==
    /\ item.type = "file"
    /\ \E k \in DOMAIN fileExtensions :
          Includes(item.name, "." \o fileExtensions[k])

\* The test of processContents that makes an item a component file.
Qualifies(item, fileExtensions) ==
    /\ item.type = "file"
    /\ \E k \in DOMAIN fileExtensions :
          EndsWith(item.name, "." \o fileExtensions[k])

getComponentType(componentPath) ==
    IF Includes(ToLowerCase(componentPath), "app") THEN "page"
    ELSE IF \/ Includes(componentPath, "pages")
            \/ Includes(componentPath, "views")
            \/ Includes(ToLowerCase(componentPath), "meals")
    THEN "page"
    ELSE IF \/ Includes(componentPath, "layouts")
            \/ Includes(ToLowerCase(componentPath), "header")
    THEN "layout"
    ELSE "component"

\* \w+
IsWord(s) ==
    /\ Len(s) > 0
    /\ \A k \in 1..Len(s) : IsWordChar(Ch(s, k))

\* \{[^}]+\}
IsBraceGroup(s) ==
    /\ Len(s) >= 3
    /\ Ch(s, 1) = "{"
    /\ Ch(s, Len(s)) = "}"
    /\ \A k \in 2..(Len(s) - 1) : Ch(s, k) # "}"

\* [^'"]+
IsQuoted(s) ==
    /\ Len(s) > 0
    /\ \A k \in 1..Len(s) : Ch(s, k) \notin {"'", "\""}

\* A statement /import\s+(\w+|\{[^}]+\})\s+from\s+['"]([^'"]+)['"]/ matches.
MatchesImport(line) ==
    /\ line.kw = "import"
    /\ (IsWord(line.clause) \/ IsBraceGroup(line.clause))
    /\ IsQuoted(line.source)

\* importedComponent.replace(/[{}]/g, "")
RECURSIVE RemoveBraces(_)
RemoveBraces(s) ==
    IF Len(s) = 0 THEN ""
    ELSE (IF Ch(s, 1) \in {"{", "}"} THEN "" ELSE Ch(s, 1))
         \o RemoveBraces(SubSeq(s, 2, Len(s)))

\* The resolved path pushed for one matched import statement.
ResolveImport(currentPath, line) ==
    PathJoin(<< currentPath, PathDirname(line.source),
                Trim(RemoveBraces(line.clause)) >>)

\* The imports of the component built from `content` in directory currentPath.
ExtractImports(currentPath, content) ==
    LET importMatches == SelectSeq(content, MatchesImport)
    IN  [ k \in DOMAIN importMatches |-> ResolveImport(currentPath, importMatches[k]) ]

\* The keys of a map, in insertion order.
Keys(map) ==
    [ k \in DOMAIN map |-> map[k].key ]

HasKey(map, key) ==
    \E k \in DOMAIN map : map[k].key = key

Lookup(map, key) ==
    map[CHOOSE k \in DOMAIN map : map[k].key = key]

\* Put that leaves the entry of a known key as it is.
PutKeepsFirst(map, key, value) ==
    IF HasKey(map, key) THEN map ELSE Append(map, value)

\* components[key] = value: a new key is appended, a known one keeps its place.
Put(map, key, value) ==
    IF HasKey(map, key)
    THEN [ k \in DOMAIN map |-> IF map[k].key = key THEN value ELSE map[k] ]
    ELSE Append(map, value)

\* The component processContents stores for a qualifying file and its content.
NewComponent(item, currentPath, content) ==
    LET componentName == Split(item.name, ".")[1]
        componentPath == PathJoin(<<currentPath, componentName>>)
    IN  [ key      |-> componentPath,
          name     |-> componentName,
          type     |-> getComponentType(componentPath),
          filePath |-> PathJoin(<<currentPath, item.name>>),
          imports  |-> ExtractImports(currentPath, content),
          children |-> <<>> ]

\* The (importer, import target) pairs in the order the hierarchy loop meets them.
RECURSIVE ImportEdges(_, _)
ImportEdges(map, k) ==
    IF k > Len(map) THEN <<>>
    ELSE [ j \in DOMAIN map[k].imports |->
             [importer |-> map[k].key, target |-> map[k].imports[j]] ]
         \o ImportEdges(map, k + 1)

\* The children the hierarchy loop pushes onto the component `key`.
ChildrenOf(map, key) ==
    LET mine == SelectSeq(ImportEdges(map, 1), LAMBDA e : e.target = key)
    IN  [ k \in DOMAIN mine |-> mine[k].importer ]

\* LinkChildren with the edge turned round: the imported component is pushed
\* onto the children of its importer.
LinkChildrenReversed(map) ==
    [ k \in DOMAIN map |->
        [ map[k] EXCEPT !.children =
            SelectSeq(map[k].imports, LAMBDA t : HasKey(map, t)) ] ]

\* The map after "Build component hierarchy".
LinkChildren(map) ==
    [ k \in DOMAIN map |-> [ map[k] EXCEPT !.children = ChildrenOf(map, map[k].key) ] ]

\* The component pushed to rootComponents.
IsRootComponent(component) ==
    Len(component.imports) = 0

RootsOf(map) ==
    Keys(SelectSeq(map, IsRootComponent))

\* JSON.stringify meets an object that is its own ancestor below `key`.
RECURSIVE Circular(_, _, _)
Circular(map, key, ancestors) ==
    \/ key \in ancestors
    \/ \E k \in DOMAIN Lookup(map, key).children :
          Circular(map, Lookup(map, key).children[k], ancestors \cup {key})

\* The value JSON.parse gives back for the JSON text of one component.
RECURSIVE Nested(_, _)
Nested(map, key) ==
    LET c == Lookup(map, key)
    IN  [ name     |-> c.name,
          type     |-> c.type,
          filePath |-> c.filePath,
          imports  |-> c.imports,
          children |-> [ k \in DOMAIN c.children |-> Nested(map, c.children[k]) ] ]

\* JSON.parse(JSON.stringify(rootComponents, null, 2))
StringifyParse(map, roots) ==
    IF \E k \in DOMAIN roots : Circular(map, roots[k], {})
    THEN Throw(JsError("TypeError: Converting circular structure to JSON"))
    ELSE Ok([ k \in DOMAIN roots |-> Nested(map, roots[k]) ])

(***************************************************************************)
(* utils/flowParser.ts: generateMermaidFlowchart                           *)
(***************************************************************************)

\* name.replace(/[^a-zA-Z0-9]/g, "_")
RECURSIVE NodeId(_)
NodeId(name) ==
    IF Len(name) = 0 THEN ""
    ELSE (IF IsAlnum(Ch(name, 1)) THEN Ch(name, 1) ELSE "_")
         \o NodeId(SubSeq(name, 2, Len(name)))

NodeStyle(type) ==
    IF type = "page" THEN "(( ))"
    ELSE IF type = "layout" THEN "{{ }}"
    ELSE "[/ /]"

\* "  ".repeat(depth)
RECURSIVE Indent(_)
Indent(depth) ==
    IF depth = 0 THEN "" ELSE "  " \o Indent(depth - 1)

\* componentMap.has(name): the map is filled from the top-level components.
MapHas(forest, name) ==
    \E k \in DOMAIN forest : forest[k].name = name

\* componentMap.get(name): the last top-level component of that name.
MapGet(forest, name) ==
    forest[CHOOSE k \in DOMAIN forest :
             /\ forest[k].name = name
             /\ \A j \in DOMAIN forest : forest[j].name = name => j <= k]

\* determineRelationshipType with the roles of parent and child taken the wrong
\* way round.
determineRelationshipTypeSwapped(parent, child) ==
    IF child.type = "layout" /\ parent.type = "page" THEN "contains"
    ELSE IF child.type = "page" /\ parent.type = "component" THEN "uses"
    ELSE IF child.type = "component" /\ parent.type = "component" THEN "composes"
    ELSE "relates to"

determineRelationshipType(parent, child) ==
    IF parent.type = "layout" /\ child.type = "page" THEN "contains"
    ELSE IF parent.type = "page" /\ child.type = "component" THEN "uses"
    ELSE IF parent.type = "component" /\ child.type = "component" THEN "composes"
    ELSE "relates to"

\* The filter that finds the "root components (those with no parents)".
IsDisplayRoot(forest, component) ==
    ~ \E k \in DOMAIN forest :
         \E j \in DOMAIN forest[k].children :
            forest[k].children[j].name = component.name

\* createNode(component, depth) calls itself more than `fuel` levels deep.
RECURSIVE Recurses(_, _, _)
Recurses(forest, component, fuel) ==
    IF fuel = 0 THEN TRUE
    ELSE \E k \in DOMAIN component.children :
            /\ MapHas(forest, component.children[k].name)
            /\ Recurses(forest, MapGet(forest, component.children[k].name), fuel - 1)

\* The lines createNode(component, depth) adds to the chart.
RECURSIVE createNode(_, _, _)
createNode(forest, component, depth) ==
    LET line == Indent(depth) \o NodeId(component.name) \o NodeStyle(component.type)
                \o "[\"" \o component.name \o " (" \o component.type \o ")\"]"
        RECURSIVE below(_)
        below(k) ==
            IF k > Len(component.children) THEN <<>>
            ELSE (IF MapHas(forest, component.children[k].name)
                  THEN createNode(forest, MapGet(forest, component.children[k].name),
                                  depth + 1)
                  ELSE <<>>)
                 \o below(k + 1)
    IN  <<line>> \o below(1)

\* The node declarations: createNode of every display root, in order.
RECURSIVE NodeDeclarations(_, _)
NodeDeclarations(forest, k) ==
    IF k > Len(forest) THEN <<>>
    ELSE (IF IsDisplayRoot(forest, forest[k])
          THEN createNode(forest, forest[k], 0)
          ELSE <<>>)
         \o NodeDeclarations(forest, k + 1)

\* The edge declarations: one per child of every component of the array.
RECURSIVE EdgeDeclarations(_, _)
EdgeDeclarations(forest, k) ==
    IF k > Len(forest) THEN <<>>
    ELSE [ j \in DOMAIN forest[k].children |->
             "  " \o NodeId(forest[k].name) \o " -->|"
             \o determineRelationshipType(forest[k], forest[k].children[j])
             \o "| " \o NodeId(forest[k].children[j].name) ]
         \o EdgeDeclarations(forest, k + 1)

\* chart.match(/\[.*\]/): "." matches no line break.
HasNodePattern(lines) ==
    \E k \in DOMAIN lines :
       \E a \in 1..Len(lines[k]) :
          \E b \in (a + 1)..Len(lines[k]) :
             Ch(lines[k], a) = "[" /\ Ch(lines[k], b) = "]"

\* chart.match(/-->|--/)
HasEdgePattern(lines) ==
    \E k \in DOMAIN lines : Includes(lines[k], "-->") \/ Includes(lines[k], "--")

\* Validate without its test for a node definition.
ValidateWithoutNodeTest(lines) ==
    IF ~ \E k \in DOMAIN lines : Includes(lines[k], "flowchart TD")
    THEN Throw("Missing flowchart declaration")
    ELSE IF ~HasEdgePattern(lines)
    THEN Throw("Missing relationship definitions")
    ELSE Ok(lines)

\* The "Validate Mermaid.js syntax" block: the message of the error it throws.
Validate(lines) ==
    IF ~ \E k \in DOMAIN lines : Includes(lines[k], "flowchart TD")
    THEN Throw("Missing flowchart declaration")
    ELSE IF ~HasNodePattern(lines)
    THEN Throw("Missing node definitions")
    ELSE IF ~HasEdgePattern(lines)
    THEN Throw("Missing relationship definitions")
    ELSE Ok(lines)

\* generateMermaidFlowchart with `chart` kept from one call to the next: a call
\* appends to the text the call before it returned.
generateMermaidFlowchartKeepsChart(forest) ==
    LET before == IF results # <<>> /\ results[Len(results)].ok
                  THEN results[Len(results)].value
                  ELSE <<>>
        lines  == before \o <<"flowchart TD">> \o NodeDeclarations(forest, 1)
                  \o EdgeDeclarations(forest, 1)
        valid  == Validate(lines)
    IN  IF \E k \in DOMAIN forest :
              IsDisplayRoot(forest, forest[k]) /\ Recurses(forest, forest[k], Len(forest))
        THEN Throw(JsError("RangeError: Maximum call stack size exceeded"))
        ELSE IF valid.ok THEN valid
        ELSE Throw(McpError("InternalError",
                            "Failed to generate valid Mermaid.js chart",
                            valid.error))

generateMermaidFlowchart(forest) ==
    IF \E k \in DOMAIN forest :
          IsDisplayRoot(forest, forest[k]) /\ Recurses(forest, forest[k], Len(forest))
    THEN Throw(JsError("RangeError: Maximum call stack size exceeded"))
    ELSE
        LET lines == <<"flowchart TD">> \o NodeDeclarations(forest, 1)
                     \o EdgeDeclarations(forest, 1)
            valid == Validate(lines)
        IN  IF valid.ok THEN valid
            ELSE Throw(McpError("InternalError",
                                "Failed to generate valid Mermaid.js chart",
                                valid.error))

(***************************************************************************)
(* index.ts: the CallToolRequestSchema handler, and the steps of the       *)
(* parseUIFlow call it awaits.                                             *)
(***************************************************************************)

\* The bound on the paths that fail in one run.
MaxFaults ==
    1

OutputName ==
    "userflo.md"

\* process.cwd()
Cwd ==
    "/srv"

\* The arguments a caller may send.
Requests ==
    LET exts    == { <<>> } \cup { [fileExtensions |-> <<"ts">>] }
        local   == { [name |-> "generate_ui_flow", repoPath |-> LocalRoot,
                      isLocal |-> TRUE] }
        unknown == { [name |-> "read_ui_flow", repoPath |-> LocalRoot,
                      isLocal |-> TRUE] }
        base    == [name |-> "generate_ui_flow", repoPath |-> "", isLocal |-> FALSE]
        remote  == { base @@ [owner |-> RepoOwner, repo |-> RepoName],
                     base @@ [repo |-> RepoName],
                     base @@ [owner |-> RepoOwner],
                     base @@ [owner |-> "", repo |-> ""],
                     base @@ [owner |-> RepoOwner, repo |-> "gone"] }
    IN  unknown \cup { r @@ e : r \in local \cup remote, e \in exts }

\* !value of an optional string field
Falsy(record, field) ==
    field \notin DOMAIN record \/ record[field] = ""

\* record.field || ""
OrEmpty(record, field) ==
    IF Falsy(record, field) THEN "" ELSE record[field]

\* The fileExtensions parameter of parseUIFlow, with its default.
Extensions(i) ==
    IF "fileExtensions" \in DOMAIN args[i]
    THEN args[i].fileExtensions
    ELSE DefaultExtensions

Init ==
    /\ repoId \in TreeIds
    /\ faulty \in { F \in SUBSET (PathsOf(repoId) \cup {OutputName}) :
                      Cardinality(F) <= MaxFaults }
    /\ githubToken \in BOOLEAN
    /\ written = <<>>
    /\ invocations = {1}
    /\ args \in [invocations -> Requests]
    /\ pc = [i \in invocations |-> "request"]
    /\ pending = [i \in invocations |-> [kind |-> "none"]]
    /\ stack = [i \in invocations |-> <<>>]
    /\ components = [i \in invocations |-> <<>>]
    /\ rootComponents = [i \in invocations |-> <<>>]
    /\ uiFlow = [i \in invocations |-> <<>>]
    /\ chart = [i \in invocations |-> <<>>]
    /\ requests = [i \in invocations |-> <<>>]
    /\ warnings = [i \in invocations |-> <<>>]
    /\ response = [i \in invocations |-> [kind |-> "none"]]
    /\ probe = [fn |-> "none"]
    /\ results = <<>>

\* The catch block of the handler: an McpError is rethrown, any other error is
\* wrapped.
HandlerError(error) ==
    IF error.mcp THEN error
    ELSE McpError("InternalError", "Failed to generate UI flow", error.message)

\* The invocation ends with an error response.
Fail(i, error) ==
    /\ pc' = [pc EXCEPT ![i] = "failed"]
    /\ response' = [response EXCEPT ![i] =
                       [kind |-> "error", error |-> HandlerError(error)]]

\* CallTool without the test of owner and repo.
CallToolUnchecked(i) ==
    /\ pc[i] = "request"
    /\ IF args[i].name # "generate_ui_flow"
       THEN /\ Fail(i, McpError("MethodNotFound", "Unknown tool", args[i].name))
            /\ UNCHANGED pending
       ELSE /\ pending' = [pending EXCEPT ![i] =
                   IF args[i].isLocal
                   THEN [kind |-> "local", path |-> args[i].repoPath,
                         currentPath |-> ""]
                   ELSE [kind |-> "github", owner |-> OrEmpty(args[i], "owner"),
                         repo |-> OrEmpty(args[i], "repo"), path |-> "",
                         currentPath |-> ""]]
            /\ pc' = [pc EXCEPT ![i] = "list"]
            /\ UNCHANGED response
    /\ UNCHANGED << envVars, libVars, written, stack, components, rootComponents, uiFlow,
                    chart, requests, warnings >>

\* The handler up to its first await: the tool name and the arguments are
\* checked and the listing of the root is chosen.
CallTool(i) ==
    /\ pc[i] = "request"
    /\ IF args[i].name # "generate_ui_flow"
       THEN /\ Fail(i, McpError("MethodNotFound", "Unknown tool", args[i].name))
            /\ UNCHANGED pending
       ELSE IF args[i].isLocal
       THEN /\ pending' = [pending EXCEPT ![i] =
                   [kind |-> "local", path |-> args[i].repoPath, currentPath |-> ""]]
            /\ pc' = [pc EXCEPT ![i] = "list"]
            /\ UNCHANGED response
       ELSE IF Falsy(args[i], "owner") \/ Falsy(args[i], "repo")
       THEN /\ Fail(i, McpError("InvalidParams",
                                "Owner and repo are required for GitHub repositories",
                                ""))
            /\ UNCHANGED pending
       ELSE /\ pending' = [pending EXCEPT ![i] =
                   [kind |-> "github", owner |-> args[i].owner, repo |-> args[i].repo,
                    path |-> "", currentPath |-> ""]]
            /\ pc' = [pc EXCEPT ![i] = "list"]
            /\ UNCHANGED response
    /\ UNCHANGED << envVars, libVars, written, stack, components, rootComponents, uiFlow,
                    chart, requests, warnings >>

\* Listed with the error of a listing caught: the directory counts as empty.
ListedSwallowsError(i, result) ==
    /\ stack' = [stack EXCEPT ![i] =
           Append(@, [items |-> IF result.ok THEN result.value ELSE <<>>,
                      idx |-> 1, currentPath |-> pending[i].currentPath])]
    /\ pc' = [pc EXCEPT ![i] = "walk"]
    /\ UNCHANGED response

\* A listing returned: processContents starts on it, or its error ends the call.
Listed(i, result) ==
    IF result.ok
    THEN /\ stack' = [stack EXCEPT ![i] =
                Append(@, [items |-> result.value, idx |-> 1,
                           currentPath |-> pending[i].currentPath])]
         /\ pc' = [pc EXCEPT ![i] = "walk"]
         /\ UNCHANGED response
    ELSE /\ Fail(i, result.error)
         /\ UNCHANGED stack

\* await fetchLocalRepoContents(path), for the root and for a directory item.
FetchLocal(i) ==
    /\ pc[i] = "list"
    /\ pending[i].kind = "local"
    /\ Listed(i, fetchLocalRepoContents(pending[i].path))
    /\ requests' = [requests EXCEPT ![i] =
            Append(@, [op |-> "readdir", path |-> pending[i].path])]
    /\ pending' = [pending EXCEPT ![i] = [kind |-> "none"]]
    /\ UNCHANGED << envVars, libVars, written, components, rootComponents, uiFlow, chart,
                    warnings >>

\* await fetchGitHubRepoContents(owner, repo, path), likewise; without a token no
\* request is sent.
FetchGitHub(i) ==
    /\ pc[i] = "list"
    /\ pending[i].kind = "github"
    /\ Listed(i, fetchGitHubRepoContents(pending[i].owner, pending[i].repo,
                                         pending[i].path))
    /\ requests' = [requests EXCEPT ![i] =
            IF githubToken
            THEN Append(@, [op |-> "contents", owner |-> pending[i].owner,
                            repo |-> pending[i].repo, path |-> pending[i].path])
            ELSE @]
    /\ pending' = [pending EXCEPT ![i] = [kind |-> "none"]]
    /\ UNCHANGED << envVars, libVars, written, components, rootComponents, uiFlow, chart,
                    warnings >>

\* The running activation of processContents and the item its loop is at.
Top(i) ==
    stack[i][Len(stack[i])]

AtItem(i) ==
    /\ pc[i] = "walk"
    /\ Top(i).idx <= Len(Top(i).items)

Item(i) ==
    Top(i).items[Top(i).idx]

\* The loop of the running activation moves to its next item.
NextItem(i) ==
    stack' = [stack EXCEPT ![i][Len(stack[i])].idx = @ + 1]

\* The content of a qualifying file: the item's own in local mode, fetched from
\* its download_url otherwise.
FileContent(i, item) ==
    IF args[i].isLocal
    THEN Ok(IF "content" \in DOMAIN item THEN item.content ELSE <<>>)
    ELSE AxiosGet(OrEmpty(item, "download_url"))

\* The download a remote invocation issues for a qualifying file.
Downloads(i, item) ==
    IF args[i].isLocal THEN <<>>
    ELSE << [op |-> "download", url |-> OrEmpty(item, "download_url")] >>

\* ProcessFile with `components` declared outside parseUIFlow: one map for all
\* invocations.
ProcessFileSharedMap(i) ==
    /\ AtItem(i)
    /\ Qualifies(Item(i), Extensions(i))
    /\ FileContent(i, Item(i)).ok
    /\ components' =
            LET c == NewComponent(Item(i), Top(i).currentPath,
                                  FileContent(i, Item(i)).value)
            IN  [ j \in invocations |-> Put(components[j], c.key, c) ]
    /\ requests' = [requests EXCEPT ![i] = @ \o Downloads(i, Item(i))]
    /\ NextItem(i)
    /\ UNCHANGED << envVars, libVars, written, pc, pending, rootComponents, uiFlow,
                    chart, warnings, response >>

\* A qualifying file whose content is at hand: its component is stored under
\* its component path with the imports found in the content.
ProcessFile(i) ==
    /\ AtItem(i)
    /\ Qualifies(Item(i), Extensions(i))
    /\ FileContent(i, Item(i)).ok
    /\ components' = [components EXCEPT ![i] =
            LET c == NewComponent(Item(i), Top(i).currentPath,
                                  FileContent(i, Item(i)).value)
            IN  Put(@, c.key, c)]
    /\ requests' = [requests EXCEPT ![i] = @ \o Downloads(i, Item(i))]
    /\ NextItem(i)
    /\ UNCHANGED << envVars, libVars, written, pc, pending, rootComponents, uiFlow, chart,
                    warnings, response >>

\* SkipFile without the try block: the failed fetch ends the build.
SkipFileAborts(i) ==
    /\ AtItem(i)
    /\ Qualifies(Item(i), Extensions(i))
    /\ ~FileContent(i, Item(i)).ok
    /\ Fail(i, JsError(FileContent(i, Item(i)).error))
    /\ requests' = [requests EXCEPT ![i] = @ \o Downloads(i, Item(i))]
    /\ UNCHANGED << envVars, libVars, written, pending, stack, components, rootComponents,
                    uiFlow, chart, warnings >>

\* A qualifying file whose content cannot be fetched: the catch block warns and
\* continues with the next item.
SkipFile(i) ==
    /\ AtItem(i)
    /\ Qualifies(Item(i), Extensions(i))
    /\ ~FileContent(i, Item(i)).ok
    /\ warnings' = [warnings EXCEPT ![i] =
            Append(@, "Failed to fetch content for " \o Item(i).name)]
    /\ requests' = [requests EXCEPT ![i] = @ \o Downloads(i, Item(i))]
    /\ NextItem(i)
    /\ UNCHANGED << envVars, libVars, written, pc, pending, components, rootComponents,
                    uiFlow, chart, response >>

\* An item that is neither a qualifying file nor a directory: nothing happens.
SkipItem(i) ==
    /\ AtItem(i)
    /\ ~Qualifies(Item(i), Extensions(i))
    /\ Item(i).type # "dir"
    /\ NextItem(i)
    /\ UNCHANGED << envVars, libVars, written, pc, pending, components, rootComponents,
                    uiFlow, chart, requests, warnings, response >>

\* The listing processContents asks for when it meets a directory item.
SubListing(i, item) ==
    IF args[i].isLocal
    THEN [kind |-> "local", path |-> item.path,
          currentPath |-> PathJoin(<<Top(i).currentPath, item.name>>)]
    ELSE [kind |-> "github", owner |-> OrEmpty(item, "owner"),
          repo |-> OrEmpty(item, "repo"), path |-> item.path,
          currentPath |-> PathJoin(<<Top(i).currentPath, item.name>>)]

\* A directory item: its listing is awaited and processContents recurses on it.
EnterDirectory(i) ==
    /\ AtItem(i)
    /\ ~Qualifies(Item(i), Extensions(i))
    /\ Item(i).type = "dir"
    /\ pending' = [pending EXCEPT ![i] = SubListing(i, Item(i))]
    /\ pc' = [pc EXCEPT ![i] = "list"]
    /\ UNCHANGED << envVars, libVars, written, stack, components, rootComponents, uiFlow,
                    chart, requests, warnings, response >>

\* The loop of an activation is over: the caller's loop goes on after its
\* directory item, or the traversal is complete.
ReturnFromDirectory(i) ==
    /\ pc[i] = "walk"
    /\ Top(i).idx > Len(Top(i).items)
    /\ IF Len(stack[i]) = 1
       THEN /\ stack' = [stack EXCEPT ![i] = <<>>]
            /\ pc' = [pc EXCEPT ![i] = "link"]
       ELSE /\ stack' = [stack EXCEPT ![i] =
                   [ SubSeq(@, 1, Len(@) - 1) EXCEPT ![Len(@) - 1].idx = @ + 1 ]]
            /\ UNCHANGED pc
    /\ UNCHANGED << envVars, libVars, written, pending, components, rootComponents, uiFlow,
                    chart, requests, warnings, response >>

\* The rest of parseUIFlow and the JSON.parse of the handler: the hierarchy is
\* linked, the roots are collected, written as JSON and parsed back.
BuildHierarchy(i) ==
    /\ pc[i] = "link"
    /\ components' = [components EXCEPT ![i] = LinkChildren(@)]
    /\ rootComponents' = [rootComponents EXCEPT ![i] = RootsOf(components[i])]
    /\ LET parsed == StringifyParse(LinkChildren(components[i]),
                                    RootsOf(components[i]))
       IN  IF parsed.ok
           THEN /\ uiFlow' = [uiFlow EXCEPT ![i] = parsed.value]
                /\ pc' = [pc EXCEPT ![i] = "render"]
                /\ UNCHANGED response
           ELSE /\ Fail(i, parsed.error)
                /\ UNCHANGED uiFlow
    /\ UNCHANGED << envVars, libVars, written, pending, stack, chart, requests, warnings >>

\* Render with the output file written whether or not the chart is valid.
RenderAlwaysWrites(i) ==
    /\ pc[i] = "render"
    /\ LET made == generateMermaidFlowchart(uiFlow[i])
       IN  IF made.ok
           THEN /\ chart' = [chart EXCEPT ![i] = made.value]
                /\ pc' = [pc EXCEPT ![i] = "write"]
                /\ UNCHANGED << response, written >>
           ELSE /\ Fail(i, made.error)
                /\ written' = Append(written,
                       [by |-> i,
                        path |-> IF args[i].isLocal
                                 THEN PathJoin(<<args[i].repoPath, "userflo.md">>)
                                 ELSE PathJoin(<<"/srv", "userflo.md">>),
                        content |-> <<>>])
                /\ UNCHANGED chart
    /\ UNCHANGED << envVars, libVars, pending, stack, components, rootComponents,
                    uiFlow, requests, warnings >>

\* generateMermaidFlowchart on the parsed forest.
Render(i) ==
    /\ pc[i] = "render"
    /\ LET made == generateMermaidFlowchart(uiFlow[i])
       IN  IF made.ok
           THEN /\ chart' = [chart EXCEPT ![i] = made.value]
                /\ pc' = [pc EXCEPT ![i] = "write"]
                /\ UNCHANGED response
           ELSE /\ Fail(i, made.error)
                /\ UNCHANGED chart
    /\ UNCHANGED << envVars, libVars, written, pending, stack, components, rootComponents,
                    uiFlow, requests, warnings >>

\* The code fence of the document: three backquotes, which a TLA+ string cannot
\* hold and which are written as three apostrophes here.
Fence ==
    "'''"

\* The document written to userflo.md, as lines.
FullContent(mermaidChart) ==
    << "# UI Flow Diagram", "",
       "This document describes the UI flow of the application.", "",
       Fence \o "mermaid" >> \o mermaidChart \o << "", Fence, "" >>

OutputPath(i) ==
    IF args[i].isLocal
    THEN PathJoin(<<args[i].repoPath, OutputName>>)
    ELSE PathJoin(<<Cwd, OutputName>>)

\* await fs.writeFile(outputPath, fullContent) and the return of the chart.
WriteOutput(i) ==
    /\ pc[i] = "write"
    /\ IF OutputName \in faulty
       THEN /\ Fail(i, JsError("EACCES: open"))
            /\ UNCHANGED written
       ELSE /\ written' = Append(written,
                   [by |-> i, path |-> OutputPath(i),
                    content |-> FullContent(chart[i])])
            /\ response' = [response EXCEPT ![i] =
                   [kind |-> "text", text |-> chart[i]]]
            /\ pc' = [pc EXCEPT ![i] = "done"]
    /\ UNCHANGED << envVars, libVars, pending, stack, components, rootComponents, uiFlow,
                    chart, requests, warnings >>

Next ==
    \/ \E i \in invocations : CallTool(i)
    \/ \E i \in invocations : FetchLocal(i)
    \/ \E i \in invocations : FetchGitHub(i)
    \/ \E i \in invocations : ProcessFile(i)
    \/ \E i \in invocations : SkipFile(i)
    \/ \E i \in invocations : SkipItem(i)
    \/ \E i \in invocations : EnterDirectory(i)
    \/ \E i \in invocations : ReturnFromDirectory(i)
    \/ \E i \in invocations : BuildHierarchy(i)
    \/ \E i \in invocations : Render(i)
    \/ \E i \in invocations : WriteOutput(i)

Spec ==
    Init /\ [][Next]_vars

(***************************************************************************)
(* utils/flowParser.ts, function by function: generateMermaidFlowchart,    *)
(* getComponentType and determineRelationshipType called on inputs of      *)
(* their own, outside an invocation of the tool.                           *)
(***************************************************************************)

\* The calls of generateMermaidFlowchart on one forest.
MaxCalls ==
    2

Roles ==
    {"page", "layout", "component"}

\* A ComponentInfo as JSON.parse gives it.
Info(name, type, imports, children) ==
    [ name |-> name, type |-> type, filePath |-> name \o ".ts",
      imports |-> imports, children |-> children ]

\* A component of each role, named after its role.
OfRole(role, imports, children) ==
    Info(IF role = "page" THEN "Home" ELSE IF role = "layout" THEN "Shell" ELSE "Button",
         role, imports, children)

\* The forests generateMermaidFlowchart is called on.
Forests ==
    LET Button == Info("Button", "component", <<>>, <<>>)
        Home   == Info("Home", "page", <<"components/Button">>, <<>>)
        A      == Info("A", "component", <<>>, <<>>)
        B      == Info("B", "component", <<"A">>, <<>>)
        C      == Info("C", "component", <<"B">>, <<>>)
        R      == Info("R", "component", <<>>, <<>>)
        Foo    == Info("Foo", "component", <<>>, <<>>)
        Bar    == Info("Bar", "component", <<>>, <<>>)
        With(c, children) == [c EXCEPT !.children = children]
    IN  {   \* no component
            <<>>,
            \* what the build returns for the worked example, and the same
            \* components all at the top
            << With(Button, <<Home>>) >>,
            << With(Button, <<Home>>), Home >>,
            \* the chain A <- B <- C as the build returns it, and all at the top
            << With(A, << With(B, <<C>>) >>) >>,
            << With(A, << With(B, <<C>>) >>), With(B, <<C>>), C >>,
            \* A and B are each other's child below R
            << With(R, <<A>>), With(A, <<B>>), With(B, <<A>>) >>,
            \* a component that is its own child
            << With(A, <<A>>) >>,
            \* two components of one name
            << Foo, With(Bar, << With(Foo, <<>>) >>) >>,
            \* names with characters that are no letters or digits
            << Info("nav--bar", "component", <<>>, <<>>) >>,
            << With(Info("nav-bar", "layout", <<>>, <<>>),
                    << Info("nav.bar", "page", <<"nav-bar">>, <<>>) >>),
               Info("nav.bar", "page", <<"nav-bar">>, <<>>) >>
        }
        \cup
        \* a parent and its child, all at the top, for every pair of roles
        { << OfRole(p, <<>>, << Info("Child", c, <<"x">>, <<>>) >>),
             Info("Child", c, <<"x">>, <<>>) >> : p \in Roles, c \in Roles }

\* The component paths getComponentType is called on: a directory and a name, in
\* several letter cases.
ComponentPaths ==
    { PathJoin(<<d, n>>) :
        d \in {"", "src", "pages", "Pages", "PAGES", "views", "Views", "meals",
               "Meals", "layouts", "Layouts", "LAYOUTS", "app", "components"},
        n \in {"App", "Home", "Header", "HEADER", "MealsList", "Button", "index"} }

Probes ==
    { [fn |-> "generateMermaidFlowchart", components |-> f] : f \in Forests }
    \cup { [fn |-> "getComponentType", componentPath |-> p] : p \in ComponentPaths }
    \cup { [fn |-> "determineRelationshipType",
            parent |-> OfRole(p, <<>>, <<>>), child |-> OfRole(c, <<>>, <<>>)] :
            p \in Roles, c \in Roles }

LibInit ==
    /\ probe \in Probes
    /\ results = <<>>
    /\ repoId = "empty"
    /\ faulty = {}
    /\ githubToken = FALSE
    /\ written = <<>>
    /\ invocations = {}
    /\ args = <<>>
    /\ pc = <<>>
    /\ pending = <<>>
    /\ stack = <<>>
    /\ components = <<>>
    /\ rootComponents = <<>>
    /\ uiFlow = <<>>
    /\ chart = <<>>
    /\ requests = <<>>
    /\ warnings = <<>>
    /\ response = <<>>

\* One more call of generateMermaidFlowchart on the forest; the function assigns
\* to its locals only, the forest is as it was.
CallGenerateMermaidFlowchart ==
    /\ probe.fn = "generateMermaidFlowchart"
    /\ Len(results) < MaxCalls
    /\ results' = Append(results, generateMermaidFlowchart(probe.components))
    /\ UNCHANGED << envVars, probe, written, pc, pending, stack, components,
                    rootComponents, uiFlow, chart, requests, warnings, response >>

CallGetComponentType ==
    /\ probe.fn = "getComponentType"
    /\ results = <<>>
    /\ results' = << getComponentType(probe.componentPath) >>
    /\ UNCHANGED << envVars, probe, written, pc, pending, stack, components,
                    rootComponents, uiFlow, chart, requests, warnings, response >>

CallDetermineRelationshipType ==
    /\ probe.fn = "determineRelationshipType"
    /\ results = <<>>
    /\ results' = << determineRelationshipType(probe.parent, probe.child) >>
    /\ UNCHANGED << envVars, probe, written, pc, pending, stack, components,
                    rootComponents, uiFlow, chart, requests, warnings, response >>

LibNext ==
    \/ CallGenerateMermaidFlowchart
    \/ CallGetComponentType
    \/ CallDetermineRelationshipType

LibSpec ==
    LibInit /\ [][LibNext]_vars

(***************************************************************************)
(* Two invocations of the tool at once: the handler is async, and a second *)
(* request is handled while the first awaits a listing or a file.          *)
(***************************************************************************)

\* The arguments of the two invocations.
ConcRequests ==
    { [name |-> "generate_ui_flow", repoPath |-> LocalRoot, isLocal |-> TRUE],
      [name |-> "generate_ui_flow", repoPath |-> LocalRoot, isLocal |-> TRUE,
       fileExtensions |-> <<"ts">>],
      [name |-> "generate_ui_flow", repoPath |-> "", isLocal |-> FALSE,
       owner |-> RepoOwner, repo |-> RepoName] }

ConcInit ==
    /\ repoId \in {"example", "flat"}
    /\ faulty \in { F \in SUBSET PathsOf(repoId) : Cardinality(F) <= 1 }
    /\ githubToken = TRUE
    /\ written = <<>>
    /\ invocations = {1, 2}
    /\ args \in [invocations -> ConcRequests]
    /\ pc = [i \in invocations |-> "request"]
    /\ pending = [i \in invocations |-> [kind |-> "none"]]
    /\ stack = [i \in invocations |-> <<>>]
    /\ components = [i \in invocations |-> <<>>]
    /\ rootComponents = [i \in invocations |-> <<>>]
    /\ uiFlow = [i \in invocations |-> <<>>]
    /\ chart = [i \in invocations |-> <<>>]
    /\ requests = [i \in invocations |-> <<>>]
    /\ warnings = [i \in invocations |-> <<>>]
    /\ response = [i \in invocations |-> [kind |-> "none"]]
    /\ probe = [fn |-> "none"]
    /\ results = <<>>

ConcSpec ==
    ConcInit /\ [][Next]_vars

(***************************************************************************)
(* Properties.                                                             *)
(***************************************************************************)

\* How often x occurs in the sequence seq.
Count(seq, x) ==
    Cardinality({ k \in DOMAIN seq : seq[k] = x })

\* The traversal of invocation i is over and its hierarchy has been linked.
Built(i) ==
    /\ pc[i] \in {"render", "write", "done", "failed"}
    /\ stack[i] = <<>>
    /\ components[i] # <<>>

\* parseUIFlow of invocation i has returned: the handler holds its forest.
Returned(i) ==
    pc[i] = "render"

\* The files of the served tree: [path, name, text], by directory.
FilesOf(t) ==
    UNION { { [path |-> PathJoin(<<d, Trees[t][d][k].name>>),
               name |-> Trees[t][d][k].name,
               text |-> Trees[t][d][k].text] :
              k \in { j \in DOMAIN Trees[t][d] : Trees[t][d][j].type = "file" } } :
            d \in DOMAIN Trees[t] }

\* The component is somewhere in the forest: at the top or below a child.
RECURSIVE InForest(_, _)
InForest(forest, c) ==
    \E k \in DOMAIN forest :
       \/ forest[k].name = c.name /\ forest[k].filePath = c.filePath
       \/ InForest(forest[k].children, c)

\* C1: once the hierarchy of a build is linked, Y occurs in X.children exactly as
\* often as X's component path occurs in Y's imports, for all components X and Y
\* of the map; in the worked example Home is a child of Button and Button is no
\* child of Home.
C1_ChildrenAreImporters ==
    \A i \in invocations :
       Built(i) =>
          /\ \A a, b \in DOMAIN components[i] :
                Count(components[i][a].children, components[i][b].key)
                   = Count(components[i][b].imports, components[i][a].key)
          /\ (HasKey(components[i], "pages/Home")
                /\ HasKey(components[i], "components/Button"))
             => /\ Count(Lookup(components[i], "components/Button").children,
                         "pages/Home") = 1
                /\ Count(Lookup(components[i], "pages/Home").children,
                         "components/Button") = 0

\* C1's case: the worked example is built and Button has got Home as its child.
C1_Witness ==
    /\ Built(1)
    /\ repoId = "example"
    /\ HasKey(components[1], "components/Button")
    /\ Lookup(components[1], "components/Button").children = <<"pages/Home">>

\* C2 as claimed: the forest a build returns holds every component of the map,
\* at the top or nested in children.
C2_OutputHoldsEveryComponent ==
    \A i \in invocations :
       Returned(i) =>
          \A k \in DOMAIN components[i] : InForest(uiFlow[i], components[i][k])

\* C3 as claimed: a component none of whose imports is the key of a known
\* component is one of the roots the build returns, also when it has imports.
C3_UnresolvedImportsMakeRoot ==
    \A i \in invocations :
       Built(i) =>
          \A k \in DOMAIN components[i] :
             (\A j \in DOMAIN components[i][k].imports :
                 ~HasKey(components[i], components[i][k].imports[j]))
             => Count(rootComponents[i], components[i][k].key) = 1

\* The last segment of a path.
Basename(p) ==
    Split(p, "/")[Len(Split(p, "/"))]

\* C4: every component of the map, at every moment of a build, has the filePath
\* of a file of the tree whose name ends with "." and a requested extension: a
\* file with no such ending gives no component.
C4_OnlyRequestedExtensions ==
    \A i \in invocations :
       \A k \in DOMAIN components[i] :
          /\ \E f \in FilesOf(repoId) : f.path = components[i][k].filePath
          /\ \E e \in DOMAIN Extensions(i) :
                LET name == Basename(components[i][k].filePath)
                    ext  == "." \o Extensions(i)[e]
                IN  /\ Len(name) >= Len(ext)
                    /\ \A n \in 1..Len(ext) :
                          Ch(name, Len(name) - Len(ext) + n) = Ch(ext, n)

\* C4's case: the walk of the flat tree with the one extension "ts" is over; it
\* passed App.tsx and notes.txt and kept the three .ts files only.
C4_Witness ==
    /\ pc[1] = "link"
    /\ repoId = "flat"
    /\ Extensions(1) = <<"ts">>
    /\ Keys(components[1]) = <<"A", "B", "C">>

\* The file has no import statement at all.
NoImportStatement(f) ==
    \A k \in DOMAIN f.text : f.text[k].kw # "import"

\* C5 as claimed: the component of a file without import statements has no
\* imports and is a display root of the forest the build returns.
C5_NoImportsIsDisplayRoot ==
    \A i \in invocations :
       Returned(i) =>
          \A k \in DOMAIN components[i] :
             \A f \in FilesOf(repoId) :
                (f.path = components[i][k].filePath /\ NoImportStatement(f))
                => /\ components[i][k].imports = <<>>
                   /\ \E r \in DOMAIN uiFlow[i] :
                         /\ uiFlow[i][r].filePath = f.path
                         /\ IsDisplayRoot(uiFlow[i], uiFlow[i][r])

\* fetch of the file at `path` of the served tree succeeds.
Fetchable(path) ==
    AxiosGet(RawBase \o path).ok

\* The directories of the tree whose listing invocation i has asked for.
ListedDirs(i) ==
    { requests[i][k].path : k \in { j \in DOMAIN requests[i] :
                                      requests[i][j].op = "contents" } }

\* C6: in remote mode a file whose fetch fails never ends the build with its
\* error and never gets a component, and when the traversal is over every other
\* qualifying file of a listed directory whose fetch succeeds has its component,
\* with its imports, unless a later such file of the same component path took
\* its place.
C6_FailedFetchSkipsOnlyThatFile ==
    \A i \in invocations :
       ~args[i].isLocal =>
          /\ pc[i] = "failed" => response[i].error.cause # "Request failed"
          /\ \A k \in DOMAIN components[i] : Fetchable(components[i][k].filePath)
          /\ pc[i] = "link" =>
                \A d \in ListedDirs(i) :
                   \A k \in DOMAIN Trees[repoId][d] :
                      LET e    == Trees[repoId][d][k]
                          path == PathJoin(<<d, e.name>>)
                          key  == PathJoin(<<d, Split(e.name, ".")[1]>>)
                      IN  (/\ Qualifies(e, Extensions(i))
                           /\ e.name \notin excludeFiles
                           /\ Fetchable(path))
                          => \/ \E c \in DOMAIN components[i] :
                                   /\ components[i][c].key = key
                                   /\ components[i][c].filePath = path
                                   /\ components[i][c].imports
                                         = ExtractImports(d, e.text)
                             \/ \E j \in (k + 1)..Len(Trees[repoId][d]) :
                                   LET l == Trees[repoId][d][j]
                                   IN  /\ Qualifies(l, Extensions(i))
                                       /\ Fetchable(PathJoin(<<d, l.name>>))
                                       /\ PathJoin(<<d, Split(l.name, ".")[1]>>) = key

\* C6's case: the fetch of B.ts failed in the flat tree, the traversal went on to
\* C.ts and is over.
C6_Witness ==
    /\ ~args[1].isLocal
    /\ repoId = "flat"
    /\ faulty = {"B.ts"}
    /\ pc[1] = "link"
    /\ warnings[1] = <<"Failed to fetch content for B.ts">>
    /\ HasKey(components[1], "C")
    /\ ~HasKey(components[1], "B")

\* What the data source answers to a listing request of the log.
ListingResult(request) ==
    IF request.op = "readdir"
    THEN fetchLocalRepoContents(request.path)
    ELSE fetchGitHubRepoContents(request.owner, request.repo, request.path)

\* C7: when a listing an invocation asked for fails, the invocation has failed
\* with the error of that listing, it asked the data source nothing afterwards and
\* it has neither a forest nor a chart nor an output file; without a token no
\* remote invocation gets past its first listing.
C7_ListingFailureIsFatal ==
    \A i \in invocations :
       /\ \A k \in DOMAIN requests[i] :
             (requests[i][k].op \in {"readdir", "contents"}
                /\ ~ListingResult(requests[i][k]).ok)
             => /\ pc[i] = "failed"
                /\ response[i] = [kind |-> "error",
                                  error |-> ListingResult(requests[i][k]).error]
                /\ k = Len(requests[i])
                /\ rootComponents[i] = <<>>
                /\ uiFlow[i] = <<>>
                /\ chart[i] = <<>>
                /\ \A w \in DOMAIN written : written[w].by # i
       /\ (~args[i].isLocal /\ ~githubToken)
          => pc[i] \in {"request", "list", "failed"}

\* C7's case: the listing of a directory below the root failed after a component
\* had been built, and the invocation is over with that error.
C7_Witness ==
    /\ pc[1] = "failed"
    /\ Len(requests[1]) >= 2
    /\ components[1] # <<>>
    /\ requests[1][Len(requests[1])].op = "readdir"
    /\ ~ListingResult(requests[1][Len(requests[1])]).ok
    /\ response[1].error.message = "Failed to read local repository"

\* C8 as claimed: in local mode no build ends with the error of one file's read.
C8_LocalReadFailureSkipsFile ==
    \A i \in invocations :
       args[i].isLocal =>
          ~ /\ pc[i] = "failed"
            /\ response[i].error.message = "Failed to read local repository"
            /\ response[i].error.cause = "EACCES: open"

\* C9: a remote invocation of the tool without owner or without repo, once
\* handled, has failed with InvalidParams and has asked the data source nothing,
\* built nothing, rendered nothing and written nothing.
C9_MissingRepoIdentityFailsFirst ==
    \A i \in invocations :
       (/\ args[i].name = "generate_ui_flow"
        /\ ~args[i].isLocal
        /\ Falsy(args[i], "owner") \/ Falsy(args[i], "repo")
        /\ pc[i] # "request")
       => /\ pc[i] = "failed"
          /\ response[i].kind = "error"
          /\ response[i].error.code = "InvalidParams"
          /\ requests[i] = <<>>
          /\ components[i] = <<>>
          /\ uiFlow[i] = <<>>
          /\ chart[i] = <<>>
          /\ \A w \in DOMAIN written : written[w].by # i

\* C9's case: a remote invocation with a repo and no owner has been handled.
C9_Witness ==
    /\ ~args[1].isLocal
    /\ "owner" \notin DOMAIN args[1]
    /\ "repo" \in DOMAIN args[1]
    /\ githubToken
    /\ pc[1] = "failed"
    /\ response[1].error.code = "InvalidParams"

\* C10 as claimed: a chart that render returned has the header, a node
\* declaration and an edge declaration.
C10_ReturnedChartHasNodeAndEdge ==
    \A i \in invocations :
       pc[i] \in {"write", "done"} =>
          /\ chart[i][1] = "flowchart TD"
          /\ NodeDeclarations(uiFlow[i], 1) # <<>>
          /\ EdgeDeclarations(uiFlow[i], 1) # <<>>

\* C11: when render is called on a forest without components, the call fails
\* with the validation error "Missing node definitions": the invocation ends with
\* that error, has no chart and writes no file.
C11_EmptyForestFailsValidation ==
    [][\A i \in invocations :
          (pc[i] = "render" /\ uiFlow[i] = <<>> /\ pc'[i] # "render")
          => /\ pc'[i] = "failed"
             /\ response'[i] =
                   [kind |-> "error",
                    error |-> McpError("InternalError",
                                       "Failed to generate valid Mermaid.js chart",
                                       "Missing node definitions")]
             /\ chart'[i] = <<>>
             /\ written' = written]_vars

\* C11's case: the tree without a source file gave an empty forest and its render
\* has failed.
C11_Witness ==
    /\ repoId = "empty"
    /\ pc[1] = "failed"
    /\ stack[1] = <<>>
    /\ Len(requests[1]) = 1
    /\ uiFlow[1] = <<>>
    /\ response[1].error.cause = "Missing node definitions"

RECURSIVE SameComponent(_, _, _, _)
SameComponent(parsed, map, key, depth) ==
    LET c == Lookup(map, key)
    IN  /\ parsed.name = c.name
        /\ parsed.type = c.type
        /\ parsed.filePath = c.filePath
        /\ { parsed.children[k].name : k \in DOMAIN parsed.children }
              = { Lookup(map, c.children[k]).name : k \in DOMAIN c.children }
        /\ depth > 0 =>
              /\ Len(parsed.children) = Len(c.children)
              /\ \A k \in DOMAIN c.children :
                    SameComponent(parsed.children[k], map, c.children[k], depth - 1)

\* C13 as claimed: no build ends with the error of the serialization, and the
\* forest parsed back from the JSON text has, root by root and level by level,
\* the names, roles, filePaths and child names of the components of the map.
C13_JsonRoundTrip ==
    \A i \in invocations :
       /\ pc[i] = "failed"
          => response[i].error.cause # "TypeError: Converting circular structure to JSON"
       /\ Returned(i)
          => /\ Len(uiFlow[i]) = Len(rootComponents[i])
             /\ \A k \in DOMAIN uiFlow[i] :
                   SameComponent(uiFlow[i][k], components[i], rootComponents[i][k],
                                 Len(components[i]))

\* The role of a component path by the rules as claimed: every containment test
\* is made on the path in lower case.
Classify(p) ==
    LET q == ToLowerCase(p)
    IN  IF \/ Includes(q, "app")
           \/ Includes(q, "pages")
           \/ Includes(q, "views")
           \/ Includes(q, "meals")
        THEN "page"
        ELSE IF Includes(q, "layouts") \/ Includes(q, "header")
        THEN "layout"
        ELSE "component"

\* C14 as claimed: getComponentType gives every component path, in any letter
\* case, the role of the first rule that matches it without regard to case.
C14_ClassifyIgnoresCase ==
    (probe.fn = "getComponentType" /\ results # <<>>)
    => results[1] = Classify(probe.componentPath)

\* The label of an edge by the roles of its parent and its child, pair by pair.
EdgeLabel ==
    (<<"layout", "page">> :> "contains")
    @@ (<<"page", "component">> :> "uses")
    @@ (<<"component", "component">> :> "composes")
    @@ (<<"layout", "layout">> :> "relates to")
    @@ (<<"layout", "component">> :> "relates to")
    @@ (<<"page", "page">> :> "relates to")
    @@ (<<"page", "layout">> :> "relates to")
    @@ (<<"component", "page">> :> "relates to")
    @@ (<<"component", "layout">> :> "relates to")

\* C15: determineRelationshipType gives each of the nine pairs of roles its label
\* of the table, and every child of a top-level component of a rendered forest has
\* an edge line with the label of the two roles; the edge from the component
\* Button to the page Home that imports it is labelled "relates to".
C15_EdgeLabelsFollowRoles ==
    /\ (probe.fn = "determineRelationshipType" /\ results # <<>>)
       => results[1] = EdgeLabel[<<probe.parent.type, probe.child.type>>]
    /\ probe.fn = "generateMermaidFlowchart"
       => \A r \in DOMAIN results :
             results[r].ok =>
                \A k \in DOMAIN probe.components :
                   \A j \in DOMAIN probe.components[k].children :
                      LET parent == probe.components[k]
                          child  == parent.children[j]
                      IN  \E n \in DOMAIN results[r].value :
                             results[r].value[n]
                                = "  " \o NodeId(parent.name) \o " -->|"
                                  \o EdgeLabel[<<parent.type, child.type>>]
                                  \o "| " \o NodeId(child.name)
    /\ (/\ probe.fn = "generateMermaidFlowchart"
        /\ results # <<>>
        /\ Len(probe.components) = 1
        /\ probe.components[1].name = "Button")
       => /\ results[1].ok
          /\ results[1].value[Len(results[1].value)] = "  Button -->|relates to| Home"

\* C15's case: the label of a component parent and a page child has been asked.
C15_Witness ==
    /\ probe.fn = "determineRelationshipType"
    /\ probe.parent.type = "component"
    /\ probe.child.type = "page"
    /\ results = <<"relates to">>

\* The (parent, child) pairs of a forest, at every depth.
RECURSIVE Relationships(_)
Relationships(forest) ==
    UNION { { <<forest[k], forest[k].children[j]>> : j \in DOMAIN forest[k].children }
            \cup Relationships(forest[k].children) :
            k \in DOMAIN forest }

\* The edge declaration of a parent and its child.
EdgeLine(parent, child) ==
    "  " \o NodeId(parent.name) \o " -->|" \o determineRelationshipType(parent, child)
    \o "| " \o NodeId(child.name)

\* C16 as claimed: a chart that render returned has the edge declaration of every
\* parent and child of the forest, at every depth of nesting.
C16_EdgesAtEveryDepth ==
    \A i \in invocations :
       pc[i] \in {"write", "done"} =>
          \A e \in Relationships(uiFlow[i]) :
             \E n \in DOMAIN chart[i] : chart[i][n] = EdgeLine(e[1], e[2])

\* The text of the file of the served tree at `path`.
TextOf(path) ==
    (CHOOSE f \in FilesOf(repoId) : f.path = path).text

\* C17: the map never holds two components under one key and never loses a key;
\* a step that stores the component of a file leaves under the file's component
\* path the filePath of that file and the imports of that file alone, and every
\* other component as it was; after the build of Foo.ts and Foo.test.ts, with
\* Foo.test.ts read, the component Foo is that of Foo.test.ts, processed later,
\* and imports Y only.
C17_LastWriteWins ==
    /\ [](\A i \in invocations :
            /\ \A a, b \in DOMAIN components[i] :
                  components[i][a].key = components[i][b].key => a = b
            /\ (/\ repoId = "dup"
                /\ "Foo.test.ts" \notin faulty
                /\ pc[i] \in {"link", "render", "write", "done"}
                /\ HasKey(components[i], "Foo"))
               => /\ Lookup(components[i], "Foo").filePath = "Foo.test.ts"
                  /\ Lookup(components[i], "Foo").imports = <<"Y">>)
    /\ [][\A i \in invocations :
            /\ \A k \in DOMAIN components[i] :
                  HasKey(components'[i], components[i][k].key)
            /\ (AtItem(i) /\ stack'[i] # stack[i] /\ Qualifies(Item(i), Extensions(i))
                  /\ warnings'[i] = warnings[i])
               => LET dir  == Top(i).currentPath
                      path == PathJoin(<<dir, Item(i).name>>)
                      key  == PathJoin(<<dir, Split(Item(i).name, ".")[1]>>)
                  IN  /\ HasKey(components'[i], key)
                      /\ Lookup(components'[i], key).filePath = path
                      /\ Lookup(components'[i], key).imports
                            = ExtractImports(dir, TextOf(path))
                      /\ Lookup(components'[i], key).children = <<>>
                      /\ Len(components'[i])
                            = Len(components[i])
                              + (IF HasKey(components[i], key) THEN 0 ELSE 1)
                      /\ \A k \in DOMAIN components[i] :
                            components[i][k].key # key
                            => components'[i][k] = components[i][k]]_vars

\* C17's case: Foo.ts and then Foo.test.ts have been processed and the map holds
\* X, Y and one Foo.
C17_Witness ==
    /\ repoId = "dup"
    /\ pc[1] = "link"
    /\ Keys(components[1]) = <<"X", "Y", "Foo">>
    /\ Lookup(components[1], "Foo").filePath = "Foo.test.ts"

\* C18 as claimed: every listing a remote invocation requests names the owner and
\* the repository of its arguments, and a remote build of the worked example with
\* nothing failing ends with the components of pages/ and components/.
C18_RemoteRecursionSameRepository ==
    \A i \in invocations :
       (args[i].name = "generate_ui_flow" /\ ~args[i].isLocal) =>
          /\ \A k \in DOMAIN requests[i] :
                requests[i][k].op = "contents"
                => /\ requests[i][k].owner = OrEmpty(args[i], "owner")
                   /\ requests[i][k].repo = OrEmpty(args[i], "repo")
          /\ (/\ repoId = "example"
              /\ faulty = {}
              /\ githubToken
              /\ OrEmpty(args[i], "owner") = RepoOwner
              /\ OrEmpty(args[i], "repo") = RepoName
              /\ "fileExtensions" \notin DOMAIN args[i]
              /\ pc[i] \notin {"request", "list", "walk"})
             => /\ HasKey(components[i], "pages/Home")
                /\ HasKey(components[i], "components/Button")

\* The listing an invocation with the arguments of i gets for a directory item.
AloneSubListing(i, item) ==
    IF args[i].isLocal
    THEN fetchLocalRepoContents(item.path)
    ELSE fetchGitHubRepoContents(OrEmpty(item, "owner"), OrEmpty(item, "repo"),
                                 item.path)

\* processContents of an invocation with the arguments of i that runs alone, from
\* item k of a listing on: the map it ends with, or the error that ends it.
RECURSIVE AloneContents(_, _, _, _, _)
AloneContents(i, items, k, currentPath, map) ==
    IF k > Len(items) THEN Ok(map)
    ELSE
        LET item == items[k]
        IN  IF Qualifies(item, Extensions(i))
            THEN IF FileContent(i, item).ok
                 THEN LET c == NewComponent(item, currentPath,
                                            FileContent(i, item).value)
                      IN  AloneContents(i, items, k + 1, currentPath,
                                        Put(map, c.key, c))
                 ELSE AloneContents(i, items, k + 1, currentPath, map)
            ELSE IF item.type = "dir"
            THEN LET sub   == AloneSubListing(i, item)
                     below == AloneContents(i, sub.value, 1,
                                            PathJoin(<<currentPath, item.name>>), map)
                 IN  IF ~sub.ok THEN sub
                     ELSE IF ~below.ok THEN below
                     ELSE AloneContents(i, items, k + 1, currentPath, below.value)
            ELSE AloneContents(i, items, k + 1, currentPath, map)

\* The map of an invocation with the arguments of i that runs alone.
AloneMap(i) ==
    LET contents == IF args[i].isLocal
                    THEN fetchLocalRepoContents(args[i].repoPath)
                    ELSE fetchGitHubRepoContents(args[i].owner, args[i].repo, "")
    IN  IF contents.ok THEN AloneContents(i, contents.value, 1, "", <<>>)
        ELSE contents

\* C19: with two invocations interleaved at their awaits, each invocation whose
\* traversal is over has the component map of the same invocation run alone, and
\* when its build has returned, the forest and the roots of that map; one whose
\* listing failed has the error the lone run ends with.
C19_InvocationsDoNotInterfere ==
    \A i \in invocations :
       /\ pc[i] = "link"
          => /\ AloneMap(i).ok
             /\ components[i] = AloneMap(i).value
       /\ pc[i] \in {"render", "write", "done"}
          => /\ AloneMap(i).ok
             /\ components[i] = LinkChildren(AloneMap(i).value)
             /\ rootComponents[i] = RootsOf(AloneMap(i).value)
             /\ uiFlow[i] = StringifyParse(LinkChildren(AloneMap(i).value),
                                           RootsOf(AloneMap(i).value)).value
       /\ (pc[i] = "failed" /\ ~AloneMap(i).ok)
          => response[i] = [kind |-> "error", error |-> AloneMap(i).error]

\* C19's case: the first invocation has ended its traversal while the second,
\* called with other extensions, is in the middle of its own.
C19_Witness ==
    /\ invocations = {1, 2}
    /\ repoId = "flat"
    /\ Extensions(1) # Extensions(2)
    /\ pc[1] = "link"
    /\ pc[2] = "walk"
    /\ components[2] # <<>>
    /\ components[1] # <<>>
    /\ ~ \E k \in DOMAIN components[1] : components[1][k].name = "App"
    /\ \E k \in DOMAIN components[2] : components[2][k].name = "App"

\* The chart has a node declaration of the node id: a line that is no edge and
\* that begins, after its indent, with the id and the opening of a node style.
NodeDeclared(lines, id) ==
    \E n \in DOMAIN lines :
       /\ ~Includes(lines[n], " -->|")
       /\ \E open \in {"((", "{{", "[/"} : StartsWith(Trim(lines[n]), id \o open)

\* C20 as claimed: in a chart that render returned, for the forest of a build,
\* the parent and the child of every edge declaration have a node declaration.
C20_EdgeEndpointsAreDeclared ==
    \A i \in invocations :
       pc[i] \in {"write", "done"} =>
          \A k \in DOMAIN uiFlow[i] :
             \A j \in DOMAIN uiFlow[i][k].children :
                /\ \E n \in DOMAIN chart[i] :
                      chart[i][n] = EdgeLine(uiFlow[i][k], uiFlow[i][k].children[j])
                /\ NodeDeclared(chart[i], NodeId(uiFlow[i][k].name))
                /\ NodeDeclared(chart[i], NodeId(uiFlow[i][k].children[j].name))

\* The error of the validation block of render, whatever its message.
IsValidationError(error) ==
    /\ error.mcp
    /\ error.code = "InternalError"
    /\ error.message = "Failed to generate valid Mermaid.js chart"

\* C21 as claimed: every call of render on a forest ends with a chart or with a
\* validation error, also on the forest of R, A and B in which R has the child A,
\* A the child B and B the child A.
C21_RenderTerminates ==
    probe.fn = "generateMermaidFlowchart"
    => \A r \in DOMAIN results :
          results[r].ok \/ IsValidationError(results[r].error)

\* The writes of the output file by invocation i, as indices of `written`.
WritesOf(i) ==
    { w \in DOMAIN written : written[w].by = i }

\* The lines of the document between the line that opens the mermaid block and
\* the empty line and the fence that close it.
ChartInside(content) ==
    SubSeq(content, 6, Len(content) - 3)

\* C22: an invocation writes the output file at most once; when it has written,
\* its build and its render had succeeded and it returned to the caller the chart
\* that render made, which is the text inside the file; a step that writes the
\* file is taken by an invocation that holds its validated chart; an invocation
\* that failed has written nothing and has answered with an error.
C22_OneWriteAfterSuccess ==
    /\ [](\A i \in invocations :
            /\ Cardinality(WritesOf(i)) <= 1
            /\ WritesOf(i) # {}
               => /\ pc[i] = "done"
                  /\ generateMermaidFlowchart(uiFlow[i]).ok
                  /\ chart[i] = generateMermaidFlowchart(uiFlow[i]).value
            /\ pc[i] = "done"
               => /\ Cardinality(WritesOf(i)) = 1
                  /\ response[i].kind = "text"
                  /\ \A w \in WritesOf(i) :
                        /\ ChartInside(written[w].content) = response[i].text
                        /\ written[w].content[5] = Fence \o "mermaid"
                        /\ written[w].path = OutputPath(i)
            /\ pc[i] = "failed"
               => /\ WritesOf(i) = {}
                  /\ response[i].kind = "error"
                  /\ "text" \notin DOMAIN response[i])
    /\ [][\A i \in invocations :
            WritesOf(i)' # WritesOf(i)
            => /\ pc[i] = "write"
               /\ stack[i] = <<>>
               /\ Validate(chart[i]).ok]_vars

\* C22's case: a local invocation on the worked example is over; its chart is in
\* the one file written and in the answer.
C22_Witness ==
    /\ repoId = "example"
    /\ pc[1] = "done"
    /\ Len(written) = 1
    /\ written[1].by = 1
    /\ written[1].path = "/w/userflo.md"
    /\ response[1].text
          = << "flowchart TD", "Button[/ /][\"Button (component)\"]",
               "  Button -->|relates to| Home" >>

=============================================================================
